---- MODULE Spec2Model ----
(***************************************************************************)
(* Model of volume_maker.py: find_chapter_folders, get_image_files and     *)
(* merge_chapters, over a small file system.  Names are sequences of       *)
(* one-character strings so that the regular expressions, str.lower,       *)
(* os.path.splitext and the {:03d} formatting are computed, not assumed.   *)
(***************************************************************************)
EXTENDS Integers, Sequences, FiniteSets, TLC

\* ---------------------------------------------------------------- bounds
MaxDirs == 3          \* directories present under the base directory
MaxChapter == 2       \* start_chapter, end_chapter range over 1..MaxChapter
MaxCopyFailures == 1  \* shutil.copy2 failures injected in one run

\* --------------------------------------------------------------- strings
None == <<>>

DigitChars == {"0", "1", "2", "3", "4", "5", "6", "7", "8", "9"}

DigitVal(c) ==
    CASE c = "0" -> 0 [] c = "1" -> 1 [] c = "2" -> 2 [] c = "3" -> 3
      [] c = "4" -> 4 [] c = "5" -> 5 [] c = "6" -> 6 [] c = "7" -> 7
      [] c = "8" -> 8 [] c = "9" -> 9

DigitChar(d) ==
    CASE d = 0 -> "0" [] d = 1 -> "1" [] d = 2 -> "2" [] d = 3 -> "3"
      [] d = 4 -> "4" [] d = 5 -> "5" [] d = 6 -> "6" [] d = 7 -> "7"
      [] d = 8 -> "8" [] d = 9 -> "9"

\* str.lower() on one character
LowerChar(c) ==
    CASE c = "A" -> "a" [] c = "B" -> "b" [] c = "C" -> "c" [] c = "D" -> "d"
      [] c = "E" -> "e" [] c = "F" -> "f" [] c = "G" -> "g" [] c = "H" -> "h"
      [] c = "I" -> "i" [] c = "J" -> "j" [] c = "K" -> "k" [] c = "L" -> "l"
      [] c = "M" -> "m" [] c = "N" -> "n" [] c = "O" -> "o" [] c = "P" -> "p"
      [] c = "Q" -> "q" [] c = "R" -> "r" [] c = "S" -> "s" [] c = "T" -> "t"
      [] c = "U" -> "u" [] c = "V" -> "v" [] c = "W" -> "w" [] c = "X" -> "x"
      [] c = "Y" -> "y" [] c = "Z" -> "z" [] OTHER -> c

lower(s) == [i \in 1..Len(s) |-> LowerChar(s[i])]

\* int() of a run of decimal digits
RECURSIVE ParseInt(_)
ParseInt(s) ==
    IF s = <<>> THEN 0
    ELSE ParseInt(SubSeq(s, 1, Len(s) - 1)) * 10 + DigitVal(s[Len(s)])

\* str() of a natural number
RECURSIVE IntToStr(_)
IntToStr(n) ==
    IF n < 10 THEN <<DigitChar(n)>>
    ELSE IntToStr(n \div 10) \o <<DigitChar(n % 10)>>

\* f"{n:03d}"
ZeroPad3(n) ==
    LET d == IntToStr(n)
    IN  IF Len(d) >= 3 THEN d
        ELSE [i \in 1..(3 - Len(d)) |-> "0"] \o d

\* length of the greedy \d+ match that starts at position i of s
RECURSIVE DigitRunLen(_, _)
DigitRunLen(s, i) ==
    IF i > Len(s) \/ s[i] \notin DigitChars THEN 0
    ELSE 1 + DigitRunLen(s, i + 1)

\* str.rfind of a one-character string, 1-based, 0 when absent
LastIndexOf(s, c) ==
    LET hits == {i \in 1..Len(s) : s[i] = c}
    IN  IF hits = {} THEN 0 ELSE CHOOSE i \in hits : \A j \in hits : j <= i

\* os.path.splitext(p)[1]: the extension starts at the last dot after the
\* last separator, unless only dots precede it in the file name
splitext(p) ==
    LET sep == LastIndexOf(p, "/")
        dot == LastIndexOf(p, ".")
    IN  IF dot > sep /\ \E k \in (sep + 1)..(dot - 1) : p[k] # "."
        THEN SubSeq(p, dot, Len(p))
        ELSE <<>>

image_extensions ==
    { <<".", "j", "p", "g">>, <<".", "j", "p", "e", "g">>, <<".", "p", "n", "g">>,
      <<".", "g", "i", "f">>, <<".", "b", "m", "p">>, <<".", "w", "e", "b", "p">> }

ChapterPrefix == <<"C", "h", "a", "p", "t", "e", "r", " ">>

\* re.match(r'Chapter (\d+)', item) followed by int(match.group(1));
\* -1 stands for "no match".  re.match anchors at the start only.
ChapterMatch(item) ==
    LET p == Len(ChapterPrefix)
    IN  IF /\ Len(item) > p
           /\ SubSeq(item, 1, p) = ChapterPrefix
           /\ item[p + 1] \in DigitChars
        THEN ParseInt(SubSeq(item, p + 1, p + DigitRunLen(item, p + 1)))
        ELSE -1

\* extract_number: re.search(r'(\d+)', filename), int of the first run, else 0
extract_number(filename) ==
    LET hits == {i \in 1..Len(filename) : filename[i] \in DigitChars}
    IN  IF hits = {} THEN 0
        ELSE LET first == CHOOSE i \in hits : \A j \in hits : i <= j
             IN  ParseInt(SubSeq(filename, first, first + DigitRunLen(filename, first) - 1))

\* list.sort(key=...) on <<key, value>> pairs: stable, ascending by key
RECURSIVE InsertStable(_, _)
InsertStable(sorted, x) ==
    IF sorted = <<>> THEN <<x>>
    ELSE IF sorted[Len(sorted)][1] <= x[1] THEN Append(sorted, x)
    ELSE Append(InsertStable(SubSeq(sorted, 1, Len(sorted) - 1), x), sorted[Len(sorted)])

RECURSIVE StableSort(_)
StableSort(s) ==
    IF s = <<>> THEN <<>>
    ELSE InsertStable(StableSort(SubSeq(s, 1, Len(s) - 1)), s[Len(s)])

\* the orders in which os.listdir may return the entries of a directory
RECURSIVE Listings(_)
Listings(S) ==
    IF S = {} THEN {<<>>}
    ELSE UNION {{<<x>> \o l : l \in Listings(S \ {x})} : x \in S}

\* ----------------------------------------------------------- file system
File(d, n) == [name |-> n, kind |-> "file", data |-> <<d, n>>, whole |-> TRUE]
SubDir(n) == [name |-> n, kind |-> "dir", data |-> <<>>, whole |-> TRUE]

Ch1 == ChapterPrefix \o <<"1">>
Ch2 == ChapterPrefix \o <<"2">>
Ch02 == ChapterPrefix \o <<"0", "2">>
Ch1x == ChapterPrefix \o <<"1", "x">>
Vol == <<"V", "o", "l">>
Ch01File == ChapterPrefix \o <<"0", "1">>

F2jpg == <<"2", ".", "j", "p", "g">>
F10PNG == <<"1", "0", ".", "P", "N", "G">>
D4gif == <<"4", ".", "g", "i", "f">>
Fp3png == <<"p", "3", ".", "p", "n", "g">>
Fpage3png == <<"p", "a", "g", "e", "_", "3", ".", "p", "n", "g">>
Fendgif == <<"e", "n", "d", ".", "g", "i", "f">>
Fnotes == <<"n", "o", "t", "e", "s", ".", "t", "x", "t">>
F1jpg == <<"1", ".", "j", "p", "g">>
Fkeep == <<"k", "e", "e", "p", ".", "t", "x", "t">>

\* the directories a base directory may hold, with their content
DirNames == {Ch1, Ch2, Ch02, Ch1x, Vol}

DirContent(d) ==
    CASE d = Ch1  -> [readable |-> TRUE,
                      entries |-> {File(d, F2jpg), File(d, F10PNG), SubDir(D4gif)}]
      [] d = Ch2  -> [readable |-> TRUE,
                      entries |-> {File(d, Fp3png), File(d, Fpage3png),
                                   File(d, Fendgif), File(d, Fnotes)}]
      [] d = Ch02 -> [readable |-> FALSE, entries |-> {File(d, F1jpg)}]
      [] d = Ch1x -> [readable |-> TRUE, entries |-> {}]
      [] d = Vol  -> [readable |-> TRUE, entries |-> {File(d, Fkeep)}]

\* regular files directly under the base directory (never directories)
BaseRegularFiles == {Ch01File}

CoverJPG == <<"/", "c", ".", "d", "/", "C", "o", "v", "e", "r", ".", "J", "P", "G">>
CoverTxt == <<"/", "c", ".", "d", "/", "c", ".", "t", "x", "t">>
CoverMissing == <<"/", "c", ".", "d", "/", "m", ".", "p", "n", "g">>
CoverPaths == {None, CoverJPG, CoverTxt, CoverMissing}
ExistingCovers == {CoverJPG, CoverTxt}

OutputArgs == {None, Vol}
Answers == {<<"y">>, <<"Y">>, <<"n">>, <<>>}

Absent == [kind |-> "absent", entries |-> {}, complete |-> FALSE]
OldArchive == [kind |-> "old", entries |-> {}, complete |-> TRUE]

VARIABLES
    dirs,              \* directories under base: name -> [readable, entries]
    archive,           \* the file at cbz_path
    start_chapter, end_chapter, output_arg, cover_image_path,   \* arguments
    pc,                \* position in merge_chapters
    output_folder,
    chapter_folders,   \* sequence of <<chapter_num, folder name>>
    chapter_i,         \* index of the chapter being processed
    image_files,       \* file names of the chapter being processed
    image_i,           \* index of the page being copied
    page_counter, total_pages,
    result,            \* return value: "none" while running, "True", "False"
    outcome,           \* which return statement ended the run
    response,          \* what input() returned
    prompts,           \* number of input() calls
    failures,          \* copy failures injected so far
    dirs0, archive0,   \* the file system before the run
    stagingCreated,    \* os.makedirs(output_path) has run
    copied,            \* pages copied without error, in copy order
    reported           \* the "Total pages" value printed on success

vars == <<dirs, archive, start_chapter, end_chapter, output_arg, cover_image_path,
          pc, output_folder, chapter_folders, chapter_i, image_files, image_i,
          page_counter, total_pages, result, outcome, response, prompts, failures,
          dirs0, archive0, stagingCreated, copied, reported>>

inputs == <<start_chapter, end_chapter, output_arg, cover_image_path, dirs0, archive0>>

\* ------------------------------------------------------------- functions
\* the loop of find_chapter_folders over os.listdir(base_path)
RECURSIVE ScanChapters(_, _, _, _, _)
ScanChapters(listing, i, isdir, start, end) ==
    IF i > Len(listing) THEN <<>>
    ELSE LET item == listing[i]
             chapter_num == ChapterMatch(item)
         IN  (IF /\ item \in isdir
                 /\ chapter_num # -1
                 /\ start <= chapter_num /\ chapter_num <= end
              THEN <<<<chapter_num, item>>>>
              ELSE <<>>) \o ScanChapters(listing, i + 1, isdir, start, end)

\* find_chapter_folders without line 42: the folders in listing order
find_chapter_folders_Unsorted(listing, isdir, start, end) ==
    ScanChapters(listing, 1, isdir, start, end)

\* find_chapter_folders(base_path, start_chapter, end_chapter), where listing
\* is what os.listdir(base_path) returned and isdir the entries that are
\* directories; the result pairs a chapter number with a folder name
find_chapter_folders(listing, isdir, start, end) ==
    StableSort(ScanChapters(listing, 1, isdir, start, end))

\* the loop of get_image_files over os.listdir(folder_path)
RECURSIVE ScanImages(_, _, _)
ScanImages(listing, i, folder) ==
    IF i > Len(listing) THEN <<>>
    ELSE LET file == listing[i]
             isfile == \E e \in folder.entries : e.name = file /\ e.kind = "file"
         IN  (IF isfile /\ splitext(lower(file)) \in image_extensions
              THEN <<<<extract_number(file), file>>>>
              ELSE <<>>) \o ScanImages(listing, i + 1, folder)

\* get_image_files(folder_path): [] when os.listdir raises OSError, else the
\* image files sorted by extract_number
get_image_files(folder, listing) ==
    IF ~folder.readable THEN <<>>
    ELSE LET sorted == StableSort(ScanImages(listing, 1, folder))
         IN  [i \in 1..Len(sorted) |-> sorted[i][2]]

EntryNames(folder) == {e.name : e \in folder.entries}

\* lines 75-79: the default output name
DefaultOutput(start, end) ==
    IF start = end
    THEN <<"C", "h", "a", "p", "t", "e", "r", "_">> \o IntToStr(start)
         \o <<"_", "m", "e", "r", "g", "e", "d">>
    ELSE <<"C", "h", "a", "p", "t", "e", "r", "s", "_">> \o IntToStr(start) \o <<"-">>
         \o IntToStr(end) \o <<"_", "m", "e", "r", "g", "e", "d">>

\* line 88 testing for a refusal instead of a confirmation
Confirmed_UnlessN(r) == lower(r) # <<"n">>

\* line 88: the answer that lets the run go on
Confirmed(r) == lower(r) = <<"y">>

\* lines 162-165 (and 133-134 for the cover): the staged file name
NewName(counter, original_name) == ZeroPad3(counter) \o splitext(lower(original_name))

\* --------------------------------------------------------------- actions
Init ==
    /\ \E D \in SUBSET DirNames :
          /\ Cardinality(D) <= MaxDirs
          /\ dirs = [d \in D |-> DirContent(d)]
    /\ archive \in {Absent, OldArchive}
    /\ start_chapter \in 1..MaxChapter
    /\ end_chapter \in start_chapter..MaxChapter
    /\ output_arg \in OutputArgs
    /\ cover_image_path \in CoverPaths
    /\ pc = "start"
    /\ output_folder = None
    /\ chapter_folders = <<>>
    /\ chapter_i = 0
    /\ image_files = <<>>
    /\ image_i = 0
    /\ page_counter = 0
    /\ total_pages = 0
    /\ result = "none"
    /\ outcome = "none"
    /\ response = None
    /\ prompts = 0
    /\ failures = 0
    /\ dirs0 = dirs
    /\ archive0 = archive
    /\ stagingCreated = FALSE
    /\ copied = <<>>
    /\ reported = -1

Return(res, out) ==
    /\ pc' = "done"
    /\ result' = res
    /\ outcome' = out

\* lines 74-106: output name, overwrite prompt, cover validation
Preflight ==
    /\ pc = "start"
    /\ output_folder' = IF output_arg = None
                        THEN DefaultOutput(start_chapter, end_chapter)
                        ELSE output_arg
    /\ \E r \in Answers :
          LET exists == archive.kind # "absent"
          IN  /\ response' = IF exists THEN r ELSE response
              /\ ~exists => r = <<>>
              /\ prompts' = IF exists THEN prompts + 1 ELSE prompts
              /\ IF exists /\ ~Confirmed(r)
                 THEN /\ Return("False", "cancelled")
                      /\ UNCHANGED archive
                 ELSE /\ archive' = Absent
                      /\ IF cover_image_path # None /\ cover_image_path \notin ExistingCovers
                         THEN Return("False", "cover_not_found")
                         ELSE IF /\ cover_image_path # None
                                 /\ splitext(lower(cover_image_path)) \notin image_extensions
                         THEN Return("False", "invalid_cover")
                         ELSE /\ pc' = "mkdir"
                              /\ UNCHANGED <<result, outcome>>
    /\ UNCHANGED <<dirs, chapter_folders, chapter_i, image_files, image_i, page_counter,
                   total_pages, failures, stagingCreated, copied, reported, inputs>>

\* lines 108-113: rmtree of whatever is at output_path, then makedirs
CreateStaging ==
    /\ pc = "mkdir"
    /\ dirs' = [d \in (DOMAIN dirs) \cup {output_folder} |->
                   IF d = output_folder THEN [readable |-> TRUE, entries |-> {}]
                   ELSE dirs[d]]
    /\ stagingCreated' = TRUE
    /\ pc' = "find"
    /\ UNCHANGED <<archive, output_folder, chapter_folders, chapter_i, image_files,
                   image_i, page_counter, total_pages, result, outcome, response,
                   prompts, failures, copied, reported, inputs>>

\* lines 115-129: locate the chapters, return when there is none
FindChapters ==
    /\ pc = "find"
    /\ \E listing \in Listings((DOMAIN dirs) \cup BaseRegularFiles) :
          chapter_folders' =
              find_chapter_folders(listing, DOMAIN dirs, start_chapter, end_chapter)
    /\ IF chapter_folders' = <<>>
       THEN /\ Return("False", "no_chapters")
            /\ UNCHANGED <<page_counter, total_pages>>
       ELSE /\ pc' = "cover"
            /\ page_counter' = 1
            /\ total_pages' = 0
            /\ UNCHANGED <<result, outcome>>
    /\ UNCHANGED <<dirs, archive, output_folder, chapter_i, image_files, image_i,
                   response, prompts, failures, stagingCreated, copied, reported, inputs>>

\* shutil.copy2(src, dst) into the staging directory.  how is "ok", "failed"
\* (the exception is raised before dst is created) or "partial" (copyfile or
\* copystat raises after dst was created: dst stays, possibly truncated)
Stage(name, data, whole, how) ==
    IF how = "failed" THEN UNCHANGED dirs
    ELSE dirs' = [dirs EXCEPT ![output_folder].entries =
                     {e \in @ : e.name # name}
                     \cup {[name |-> name, kind |-> "file", data |-> data,
                            whole |-> (whole /\ how = "ok")]}]

CopyOutcomes == IF failures < MaxCopyFailures THEN {"ok", "failed", "partial"} ELSE {"ok"}

\* lines 131-144: the cover goes in first; a failed copy ends the run
CopyCover ==
    /\ pc = "cover"
    /\ IF cover_image_path = None
       THEN /\ pc' = "chapter"
            /\ UNCHANGED <<dirs, page_counter, total_pages, failures, result, outcome>>
       ELSE \E how \in CopyOutcomes :
              /\ Stage(NewName(page_counter, cover_image_path), <<cover_image_path>>,
                       TRUE, how)
              /\ IF how = "ok"
                 THEN /\ page_counter' = page_counter + 1
                      /\ total_pages' = total_pages + 1
                      /\ pc' = "chapter"
                      /\ UNCHANGED <<failures, result, outcome>>
                 ELSE /\ failures' = failures + 1
                      /\ Return("False", "cover_copy_error")
                      /\ UNCHANGED <<page_counter, total_pages>>
    /\ chapter_i' = 1
    /\ UNCHANGED <<archive, output_folder, chapter_folders, image_files, image_i,
                   response, prompts, stagingCreated, copied, reported, inputs>>

\* lines 147-157: next chapter of the loop, its images enumerated
ProcessChapter ==
    /\ pc = "chapter"
    /\ IF chapter_i > Len(chapter_folders)
       THEN /\ pc' = "zip"
            /\ UNCHANGED <<chapter_i, image_files, image_i>>
       ELSE LET folder == dirs[chapter_folders[chapter_i][2]]
            IN  /\ \E listing \in Listings(EntryNames(folder)) :
                      image_files' = get_image_files(folder, listing)
                /\ IF image_files' = <<>>
                   THEN /\ chapter_i' = chapter_i + 1
                        /\ UNCHANGED <<pc, image_i>>
                   ELSE /\ pc' = "page"
                        /\ image_i' = 1
                        /\ UNCHANGED chapter_i
    /\ UNCHANGED <<dirs, archive, output_folder, chapter_folders, page_counter,
                   total_pages, result, outcome, response, prompts, failures,
                   stagingCreated, copied, reported, inputs>>

\* lines 160-174: one page copied and renamed; a failed copy is skipped
CopyPage ==
    /\ pc = "page"
    /\ LET folder_name == chapter_folders[chapter_i][2]
           original_name == image_files[image_i]
           src == CHOOSE e \in dirs[folder_name].entries : e.name = original_name
           new_name == NewName(page_counter, original_name)
       IN  \E how \in CopyOutcomes :
              /\ Stage(new_name, src.data, src.whole, how)
              /\ IF how = "ok"
                 THEN /\ page_counter' = page_counter + 1
                      /\ total_pages' = total_pages + 1
                      /\ copied' = Append(copied,
                                     [chapter_num |-> chapter_folders[chapter_i][1],
                                      folder |-> folder_name,
                                      original_name |-> original_name,
                                      data |-> src.data,
                                      index |-> page_counter,
                                      new_name |-> new_name])
                      /\ UNCHANGED failures
                 ELSE /\ failures' = failures + 1
                      /\ UNCHANGED <<page_counter, total_pages, copied>>
    /\ IF image_i = Len(image_files)
       THEN /\ pc' = "chapter"
            /\ chapter_i' = chapter_i + 1
            /\ UNCHANGED image_i
       ELSE /\ image_i' = image_i + 1
            /\ UNCHANGED <<pc, chapter_i>>
    /\ UNCHANGED <<archive, output_folder, chapter_folders, image_files, result,
                   outcome, response, prompts, stagingCreated, reported, inputs>>

\* what os.walk(output_path) hands to cbz_file.write
Staged == {[name |-> e.name, data |-> e.data, whole |-> e.whole] :
              e \in {f \in dirs[output_folder].entries : f.kind = "file"}}

RemoveStaging == dirs' = [d \in (DOMAIN dirs) \ {output_folder} |-> dirs[d]]

\* lines 176-202: every staged file written, report printed, staging removed
CreateCbz ==
    /\ pc = "zip"
    /\ archive' = [kind |-> "zip", entries |-> Staged, complete |-> TRUE]
    /\ reported' = total_pages
    /\ RemoveStaging
    /\ Return("True", "success")
    /\ UNCHANGED <<output_folder, chapter_folders, chapter_i, image_files, image_i,
                   page_counter, total_pages, response, prompts, failures,
                   stagingCreated, copied, inputs>>

\* lines 178-185 raising, then 204-209: ZipFile() fails to open the target
\* (no file appears), or cbz_file.write of a staged file fails after the
\* files in written were added (the with-block closes the file, which stays
\* at cbz_path)
CreateCbzError ==
    /\ pc = "zip"
    /\ \E opened \in BOOLEAN, written \in SUBSET Staged :
          /\ IF opened THEN written # Staged ELSE written = {}
          /\ archive' = IF opened
                        THEN [kind |-> "zip", entries |-> written, complete |-> FALSE]
                        ELSE archive
    /\ RemoveStaging
    /\ Return("False", "archive_error")
    /\ UNCHANGED <<output_folder, chapter_folders, chapter_i, image_files, image_i,
                   page_counter, total_pages, response, prompts, failures,
                   stagingCreated, copied, reported, inputs>>

Next ==
    \/ Preflight
    \/ CreateStaging
    \/ FindChapters
    \/ CopyCover
    \/ ProcessChapter
    \/ CopyPage
    \/ CreateCbz
    \/ CreateCbzError

Spec == Init /\ [][Next]_vars

\* ---------------------------------------------------------------- claims
Done == pc = "done"

\* the numeric index of an archive entry name such as 012.png
EntryIndex(name) == ParseInt(SubSeq(name, 1, DigitRunLen(name, 1)))

\* the entry the archive holds under a name, as a set (empty or one element)
EntriesNamed(name) == {e \in archive.entries : e.name = name}

\* C1: on every exit path of merge_chapters the staging directory the run
\* created at <base>/<output name> is gone when the run ends.
C1_StagingGoneOnEveryExit ==
    Done => ~(stagingCreated /\ output_folder \in DOMAIN dirs)

\* C2: when writing the archive fails, no file is at the target path
\* afterwards (or the earlier archive is untouched when overwriting was never
\* confirmed): a partially written archive is never left there.
C2_NoPartialArchive ==
    (Done /\ outcome = "archive_error") =>
        \/ archive.kind = "absent"
        \/ (prompts = 0 /\ archive = archive0)

\* a chapter folder of the initial file system that contributes no page
ZeroPages(d) ==
    \/ ~dirs0[d].readable
    \/ ~\E e \in dirs0[d].entries :
           e.kind = "file" /\ splitext(lower(e.name)) \in image_extensions

\* C3: without a cover and with every located chapter contributing zero
\* pages, the run reports failure and creates no archive.
C3_EmptyMergeFails ==
    ( /\ Done
      /\ cover_image_path = None
      /\ chapter_folders # <<>>
      /\ \A i \in 1..Len(chapter_folders) :
            /\ chapter_folders[i][2] \in DOMAIN dirs0
            /\ chapter_folders[i][2] # output_folder
            /\ ZeroPages(chapter_folders[i][2]) )
    => /\ result = "False"
       /\ outcome # "archive_error" => archive.kind # "zip"

\* the frame of C4, with the answers that count as a confirmation
OverwriteOnlyAfter(yes) ==
    archive0.kind = "old" =>
        /\ prompts <= 1
        /\ archive # archive0 => (prompts = 1 /\ response \in yes)
        /\ (prompts = 1 /\ response \notin yes) =>
              /\ Done /\ outcome = "cancelled"
              /\ archive = archive0
              /\ ~stagingCreated

\* C4 as stated: an existing archive is deleted or overwritten only after the
\* confirmation was requested exactly once and answered 'y'; any other answer
\* cancels the run, leaves the archive unchanged and creates no staging
\* directory.
C4_OverwriteOnlyAfterY == OverwriteOnlyAfter({<<"y">>})

\* C4 amended: the same, the confirming answers being 'y' and 'Y'.
C4_OverwriteOnlyAfterYAnyCase == OverwriteOnlyAfter({<<"y">>, <<"Y">>})

C4_Witness ==
    /\ archive0.kind = "old"
    /\ response = <<"Y">>
    /\ outcome = "success"
    /\ archive.kind = "zip"

\* C5: after a successful run the numeric indices of the archive's entry
\* names are exactly 1..total_pages, each once.
C5_IndicesDense ==
    outcome = "success" =>
        /\ {EntryIndex(e.name) : e \in archive.entries} = 1..total_pages
        /\ Cardinality(archive.entries) = total_pages

\* the ordering part of C6, over the pages that were copied without error;
\* ext(name) is the extension the claim gives the entry of a source name
PagesInOrder(ext(_)) ==
    outcome = "success" =>
        /\ cover_image_path # None =>
              EntriesNamed(ZeroPad3(1) \o ext(cover_image_path))
                  = {[name |-> ZeroPad3(1) \o ext(cover_image_path),
                      data |-> <<cover_image_path>>, whole |-> TRUE]}
        /\ {copied[i].index : i \in 1..Len(copied)}
              = (IF cover_image_path # None THEN 2 ELSE 1)..total_pages
        /\ \A i \in 1..Len(copied) :
              \E e \in archive.entries :
                 /\ e.name = ZeroPad3(copied[i].index) \o ext(copied[i].original_name)
                 /\ e.data = copied[i].data
        /\ \A i, j \in 1..Len(copied) :
              /\ copied[i].chapter_num < copied[j].chapter_num
                    => copied[i].index < copied[j].index
              /\ ( /\ copied[i].folder = copied[j].folder
                   /\ extract_number(copied[i].original_name)
                         < extract_number(copied[j].original_name) )
                    => copied[i].index < copied[j].index

LowerExt(name) == splitext(lower(name))

IsLiteralChapterName(d) ==
    /\ Len(d) > Len(ChapterPrefix)
    /\ SubSeq(d, 1, Len(ChapterPrefix)) = ChapterPrefix
    /\ \A k \in (Len(ChapterPrefix) + 1)..Len(d) : d[k] \in DigitChars

\* C7: find_chapter_folders returns exactly the directories literally named
\* "Chapter <int>" with int in range, ascending, no chapter number twice, and
\* the same sequence for every listing order.
C7_ChapterLocatorExact ==
    (pc = "cover" \/ (Done /\ outcome = "no_chapters")) =>
        LET n == Len(chapter_folders)
        IN  /\ {chapter_folders[i][2] : i \in 1..n}
                 = {d \in DOMAIN dirs :
                      /\ IsLiteralChapterName(d)
                      /\ ParseInt(SubSeq(d, Len(ChapterPrefix) + 1, Len(d)))
                            \in start_chapter..end_chapter}
            /\ \A i, j \in 1..n : i < j => chapter_folders[i][1] < chapter_folders[j][1]
            /\ \A listing \in Listings((DOMAIN dirs) \cup BaseRegularFiles) :
                  find_chapter_folders(listing, DOMAIN dirs, start_chapter, end_chapter)
                     = chapter_folders

\* C8: get_image_files returns exactly the regular files with a recognized
\* extension, ascending by the first digit run (0 without digits), and the
\* same sequence for every listing order, ties included.
C8_PageEnumeratorDeterministic ==
    (pc = "page" /\ image_i = 1) =>
        LET folder == dirs[chapter_folders[chapter_i][2]]
            n == Len(image_files)
        IN  /\ {image_files[i] : i \in 1..n}
                 = {e.name : e \in {f \in folder.entries :
                                      /\ f.kind = "file"
                                      /\ \E x \in image_extensions :
                                            /\ Len(f.name) > Len(x)
                                            /\ lower(SubSeq(f.name, Len(f.name) - Len(x) + 1,
                                                            Len(f.name))) = x}}
            /\ \A i, j \in 1..n :
                  i < j => extract_number(image_files[i]) <= extract_number(image_files[j])
            /\ \A listing \in Listings(EntryNames(folder)) :
                  get_image_files(folder, listing) = image_files

\* C9: a failed copy of a page or of the cover does not abort the run: the
\* archive is still produced and the reported total equals its entry count.
C9_CopyFailureNotFatal ==
    (Done /\ failures > 0 /\ outcome # "archive_error") =>
        /\ outcome = "success"
        /\ reported = Cardinality(archive.entries)

\* C10: when the run ends, every directory that was under the base directory
\* before the run is still there with the same content.
C10_SourcesUntouched ==
    Done => \A d \in DOMAIN dirs0 : d \in DOMAIN dirs /\ dirs[d] = dirs0[d]

====
